---------------------------- MODULE Spec2Model ----------------------------
(***************************************************************************)
(* pipebuffer: a fixed-size ring buffer (src/src/ringbuffer.rs, and its    *)
(* byte copy in src/src/main.rs) and the two-thread relay of main() that   *)
(* moves bytes from stdin to stdout through it.                            *)
(*                                                                         *)
(* Spec       the ring buffer driven by an arbitrary caller: any sequence  *)
(*            of put, get and close calls on one RingBuffer.               *)
(* SpecRelay  main(): the reader (producer) loop of the main thread and    *)
(*            the writer (consumer) thread around one Mutex<RingBuffer>    *)
(*            and one Condvar, with I/O errors and spurious wakeups.       *)
(* SpecRelayFair  the relay without I/O errors, under fair scheduling.     *)
(***************************************************************************)
EXTENDS Integers, Sequences, FiniteSets, TLC

\* ------------------------------------------------------------------ bounds

\* Largest buffer capacity (the `size` handed to RingBuffer::new).
MaxCapacity == 3
\* Longest input slice handed to one put call.
MaxInputLen == 3
\* Longest output slice handed to one get call.
MaxOutputLen == 3
\* Most items accepted by put over one run of the caller.
MaxAccepted == 4

\* Largest buffer_size argument handed to main().
MaxBufferSize == 2
\* Most bytes stdin delivers before end-of-stream.
MaxStdin == 4
\* Length of the chunk arrays `bytes` of main() (32000 in the source, scaled).
ChunkLen == 2

\* The element type T: two distinguishable items.
Items == {0, 1}
\* What the caller's output slice holds before a get (test_read_on_empty_buffer
\* fills it with 7).
Fill == 7

VARIABLES
    ring,       \* the RingBuffer: capacity, buffer, write_pos, available_to_write,
                \* read_pos, available_to_read, closed
    op,         \* the caller's last call: "new", "put", "get", "close"
    arg_len,    \* the length of the slice handed to the last put or get
    ret,        \* the count the last put or get returned
    panicked,   \* whether the last call panicked instead of returning
    out,        \* the caller's output slice after the last get
    accepted,   \* every item put has accepted so far, in order
    returned,   \* every item get has returned so far, in order
    cmdline,    \* main(): the command-line arguments after the program name,
                \* each a sequence of characters
    args,       \* main(): what args[1].parse() gives: [ok, n]
    pc,         \* where the main thread (producer) and the writer thread
                \* (consumer) stand
    mutex,      \* the thread holding the Mutex around the ring, or "free"
    poisoned,   \* whether a thread panicked while holding the Mutex
    p_bytes,    \* the producer's chunk array, and its n and start
    p_n,
    p_start,
    c_bytes,    \* the consumer's chunk array, and its n and start
    c_n,
    c_start,
    stdin,      \* the bytes the input will still deliver before end-of-stream
    read_in,    \* every byte input.read has delivered so far, in order
    written,    \* every byte output.write has accepted so far, in order
    exit        \* "running", or how the process ended: "exit0", "exit1", "exit101"

callerVars == <<op, arg_len, ret, panicked, out, accepted, returned>>
relayVars == <<cmdline, args, pc, mutex, poisoned, p_bytes, p_n, p_start,
               c_bytes, c_n, c_start, stdin, read_in, written, exit>>
vars == <<ring, callerVars, relayVars>>

\* ----------------------------------------------------------------- helpers

\* std::cmp::min
min(a, b) == IF a <= b THEN a ELSE b

\* Sequences over S of length at most n.
SeqsUpTo(S, n) == UNION {[1..k -> S] : k \in 0..n}

IsPrefix(s, t) == Len(s) <= Len(t) /\ SubSeq(t, 1, Len(s)) = s

\* ------------------------------------------------------------- RingBuffer

\* RingBuffer::new. `contents` is what the storage holds after set_len(size):
\* uninitialised memory in ringbuffer.rs, zeros in main.rs.
RingBuffer_new(size, contents) ==
    [capacity           |-> size,
     buffer             |-> contents,
     write_pos          |-> 0,
     available_to_write |-> size,
     read_pos           |-> 0,
     available_to_read  |-> 0,
     closed             |-> FALSE]

\* put as it would be if it forgot to take the items from available_to_write.
put_KeepsFreeCount(self, input) ==
    IF self.closed
    THEN [self |-> self, ret |-> 0, panicked |-> TRUE]
    ELSE IF self.available_to_write = 0
    THEN [self |-> self, ret |-> 0, panicked |-> FALSE]
    ELSE
      LET distance_to_end == self.capacity - self.write_pos
          available       == min(distance_to_end, self.available_to_write)
          length          == min(available, Len(input))
      IN  [self |-> [self EXCEPT
                 !.buffer = [i \in DOMAIN self.buffer |->
                               IF self.write_pos <= i /\ i < self.write_pos + length
                               THEN input[i - self.write_pos + 1]
                               ELSE self.buffer[i]],
                 !.available_to_read  = self.available_to_read + length,
                 !.write_pos          = (self.write_pos + length) % self.capacity],
           ret |-> length, panicked |-> FALSE]

\* put as it would be if it copied across the wrap boundary instead of
\* stopping at the end of the storage.
put_CrossesWrapBoundary(self, input) ==
    IF self.closed
    THEN [self |-> self, ret |-> 0, panicked |-> TRUE]
    ELSE IF self.available_to_write = 0
    THEN [self |-> self, ret |-> 0, panicked |-> FALSE]
    ELSE
      LET length == min(self.available_to_write, Len(input))
          offset(i) == (i + self.capacity - self.write_pos) % self.capacity
      IN  [self |-> [self EXCEPT
                 !.buffer = [i \in DOMAIN self.buffer |->
                               IF offset(i) < length
                               THEN input[offset(i) + 1]
                               ELSE self.buffer[i]],
                 !.available_to_write = self.available_to_write - length,
                 !.available_to_read  = self.available_to_read + length,
                 !.write_pos          = (self.write_pos + length) % self.capacity],
           ret |-> length, panicked |-> FALSE]

\* put as it would be without its test for a closed buffer.
put_IgnoresClosed(self, input) ==
    IF self.available_to_write = 0
    THEN [self |-> self, ret |-> 0, panicked |-> FALSE]
    ELSE
      LET distance_to_end == self.capacity - self.write_pos
          available       == min(distance_to_end, self.available_to_write)
          length          == min(available, Len(input))
      IN  [self |-> [self EXCEPT
                 !.buffer = [i \in DOMAIN self.buffer |->
                               IF self.write_pos <= i /\ i < self.write_pos + length
                               THEN input[i - self.write_pos + 1]
                               ELSE self.buffer[i]],
                 !.available_to_write = self.available_to_write - length,
                 !.available_to_read  = self.available_to_read + length,
                 !.write_pos          = (self.write_pos + length) % self.capacity],
           ret |-> length, panicked |-> FALSE]

\* put as it would be with the distance to the end of the storage one short.
put_ShortDistance(self, input) ==
    IF self.closed
    THEN [self |-> self, ret |-> 0, panicked |-> TRUE]
    ELSE IF self.available_to_write = 0
    THEN [self |-> self, ret |-> 0, panicked |-> FALSE]
    ELSE
      LET distance_to_end == self.capacity - self.write_pos - 1
          available       == min(distance_to_end, self.available_to_write)
          length          == min(available, Len(input))
      IN  [self |-> [self EXCEPT
                 !.buffer = [i \in DOMAIN self.buffer |->
                               IF self.write_pos <= i /\ i < self.write_pos + length
                               THEN input[i - self.write_pos + 1]
                               ELSE self.buffer[i]],
                 !.available_to_write = self.available_to_write - length,
                 !.available_to_read  = self.available_to_read + length,
                 !.write_pos          = (self.write_pos + length) % self.capacity],
           ret |-> length, panicked |-> FALSE]

\* RingBuffer::put. The result holds the buffer after the call, the count
\* returned and whether the call panicked.
put(self, input) ==
    IF self.closed
    THEN [self |-> self, ret |-> 0, panicked |-> TRUE]
    ELSE IF self.available_to_write = 0
    THEN [self |-> self, ret |-> 0, panicked |-> FALSE]
    ELSE
      LET distance_to_end == self.capacity - self.write_pos
          available       == min(distance_to_end, self.available_to_write)
          length          == min(available, Len(input))
      IN  [self |-> [self EXCEPT
                 !.buffer = [i \in DOMAIN self.buffer |->
                               IF self.write_pos <= i /\ i < self.write_pos + length
                               THEN input[i - self.write_pos + 1]
                               ELSE self.buffer[i]],
                 !.available_to_write = self.available_to_write - length,
                 !.available_to_read  = self.available_to_read + length,
                 !.write_pos          = (self.write_pos + length) % self.capacity],
           ret |-> length, panicked |-> FALSE]

\* get as it would be if it left the read cursor where it was.
get_KeepsReadPos(self, output) ==
    LET distance_to_end == self.capacity - self.read_pos
        available       == min(distance_to_end, self.available_to_read)
        length          == min(available, Len(output))
        copied          == [i \in 1..Len(output) |->
                              IF i <= length
                              THEN self.buffer[self.read_pos + i - 1]
                              ELSE output[i]]
        counted         == [self EXCEPT
                              !.available_to_read  = self.available_to_read - length,
                              !.available_to_write = self.available_to_write + length]
    IN  IF self.capacity = 0
        THEN [self |-> counted, output |-> copied, ret |-> 0, panicked |-> TRUE]
        ELSE [self |-> counted, output |-> copied, ret |-> length, panicked |-> FALSE]

\* get as it would be if its source slice started one slot late.
get_SkipsFirstSlot(self, output) ==
    LET distance_to_end == self.capacity - self.read_pos
        available       == min(distance_to_end, self.available_to_read)
        length          == min(available, Len(output))
        copied          == [i \in 1..Len(output) |->
                              IF i <= length
                              THEN self.buffer[(self.read_pos + i) % self.capacity]
                              ELSE output[i]]
        counted         == [self EXCEPT
                              !.available_to_read  = self.available_to_read - length,
                              !.available_to_write = self.available_to_write + length]
    IN  IF self.capacity = 0
        THEN [self |-> counted, output |-> copied, ret |-> 0, panicked |-> TRUE]
        ELSE [self |-> [counted EXCEPT
                          !.read_pos = (self.read_pos + length) % self.capacity],
              output |-> copied, ret |-> length, panicked |-> FALSE]

\* RingBuffer::get. The result holds the buffer and the caller's output slice
\* after the call, the count returned and whether the call panicked. With
\* capacity 0 the remainder on the last line divides by zero and panics, after
\* the two counts have been updated.
get(self, output) ==
    LET distance_to_end == self.capacity - self.read_pos
        available       == min(distance_to_end, self.available_to_read)
        length          == min(available, Len(output))
        copied          == [i \in 1..Len(output) |->
                              IF i <= length
                              THEN self.buffer[self.read_pos + i - 1]
                              ELSE output[i]]
        counted         == [self EXCEPT
                              !.available_to_read  = self.available_to_read - length,
                              !.available_to_write = self.available_to_write + length]
    IN  IF self.capacity = 0
        THEN [self |-> counted, output |-> copied, ret |-> 0, panicked |-> TRUE]
        ELSE [self |-> [counted EXCEPT
                          !.read_pos = (self.read_pos + length) % self.capacity],
              output |-> copied, ret |-> length, panicked |-> FALSE]

\* RingBuffer::is_empty
is_empty(self) == self.available_to_read = 0

\* RingBuffer::is_full
is_full(self) == self.available_to_write = 0

\* RingBuffer::close
close(self) == [self EXCEPT !.closed = TRUE]

\* RingBuffer::is_closed
is_closed(self) == self.closed

\* ------------------------------------------- the buffer under any caller

\* The input slices a caller hands to put, and the output slices to get.
Inputs == SeqsUpTo(Items, MaxInputLen)
Outputs == {[i \in 1..k |-> Fill] : k \in 0..MaxOutputLen}

\* No relay runs while a caller drives the buffer directly.
RelayIdle ==
    /\ cmdline = <<>>
    /\ args = [ok |-> FALSE, n |-> 0]
    /\ pc = [producer |-> "idle", consumer |-> "idle"]
    /\ mutex = "free"
    /\ poisoned = FALSE
    /\ p_bytes = <<>> /\ p_n = 0 /\ p_start = 0
    /\ c_bytes = <<>> /\ c_n = 0 /\ c_start = 0
    /\ stdin = <<>> /\ read_in = <<>> /\ written = <<>>
    /\ exit = "running"

\* After RingBuffer::new(size), for every size; the storage of ringbuffer.rs
\* is uninitialised, so it holds any items.
Init ==
    /\ \E size \in 0..MaxCapacity :
         \E contents \in [0..(size - 1) -> Items] :
            ring = RingBuffer_new(size, contents)
    /\ op = "new"
    /\ arg_len = 0
    /\ ret = 0
    /\ panicked = FALSE
    /\ out = <<>>
    /\ accepted = <<>>
    /\ returned = <<>>
    /\ RelayIdle

\* buffer.put(&input)
Put(input) ==
    LET r == put(ring, input) IN
    /\ Len(accepted) + Len(input) <= MaxAccepted
    /\ ring' = r.self
    /\ op' = "put"
    /\ arg_len' = Len(input)
    /\ ret' = r.ret
    /\ panicked' = r.panicked
    /\ accepted' = accepted \o SubSeq(input, 1, r.ret)
    /\ UNCHANGED <<out, returned, relayVars>>

\* buffer.get(&mut output)
Get(output) ==
    LET r == get(ring, output) IN
    /\ ring' = r.self
    /\ op' = "get"
    /\ arg_len' = Len(output)
    /\ ret' = r.ret
    /\ panicked' = r.panicked
    /\ out' = r.output
    /\ returned' = returned \o SubSeq(r.output, 1, r.ret)
    /\ UNCHANGED <<accepted, relayVars>>

\* buffer.close()
Close ==
    /\ ring' = close(ring)
    /\ op' = "close"
    /\ arg_len' = 0
    /\ ret' = 0
    /\ panicked' = FALSE
    /\ UNCHANGED <<out, accepted, returned, relayVars>>

Next ==
    \/ \E input \in Inputs : Put(input)
    \/ \E output \in Outputs : Get(output)
    \/ Close

Spec == Init /\ [][Next]_vars

\* --------------------------------------------------------- main(): the relay

\* The decimal digits, in order: the digit of value d is Digits[d + 1].
Digits == <<"0", "1", "2", "3", "4", "5", "6", "7", "8", "9">>

IsDigit(c) == \E d \in 1..Len(Digits) : Digits[d] = c

DigitValue(c) == (CHOOSE d \in 1..Len(Digits) : Digits[d] = c) - 1

\* The number a sequence of digits writes in base ten.
RECURSIVE DecimalValue(_)
DecimalValue(s) ==
    IF s = <<>> THEN 0
    ELSE 10 * DecimalValue(SubSeq(s, 1, Len(s) - 1)) + DigitValue(s[Len(s)])

\* str::parse::<usize>(): an optional "+", then one digit or more and nothing
\* else. (A value above usize::MAX is an error too; the strings used here are
\* too short to reach it.)
parse_usize(s) ==
    LET digits == IF s /= <<>> /\ s[1] = "+" THEN SubSeq(s, 2, Len(s)) ELSE s
    IN  IF digits /= <<>> /\ \A i \in 1..Len(digits) : IsDigit(digits[i])
        THEN [ok |-> TRUE, n |-> DecimalValue(digits)]
        ELSE [ok |-> FALSE, n |-> 0]

\* main(): args.len() != 2 is an error, and so is an args[1] that does not
\* parse; both end in usage_and_exit.
ParseArgs(line) ==
    IF Len(line) /= 1 THEN [ok |-> FALSE, n |-> 0] ELSE parse_usize(line[1])

\* The command lines tried: every size up to MaxBufferSize as a raw integer,
\* one with a sign, sizes with a unit suffix, malformed ones, no argument and
\* two arguments.
CmdLines ==
    {<<<<Digits[k + 1]>>>> : k \in 0..MaxBufferSize}
    \cup {<<<<"+", "1">>>>,
          <<<<"2", "5", "6", "m">>>>, <<<<"2", "g">>>>, <<<<"1", "k">>>>,
          <<<<"1", "K", "B">>>>, <<<<"1", "p", "b">>>>,
          <<<<"a", "b", "c">>>>, <<<<"2", "x">>>>, <<<<"k">>>>, <<<<>>>>,
          <<>>, <<<<"1">>, <<"2">>>>}

\* What args[1].parse::<usize>() can give: an error, or a size.
ParseResults == {ParseArgs(line) : line \in CmdLines}

\* let mut bytes = [0; ..]
ZeroBytes == [i \in 1..ChunkLen |-> 0]

\* vec![0; size]
ZeroStorage(size) == [i \in 0..(size - 1) |-> 0]

\* Condvar::notify_one: wakes one thread blocked in cond.wait, if there is one.
\* The outcomes for the map p of thread positions.
notify_one(p) ==
    LET waiting == {t \in DOMAIN p : p[t] \in {"p_wait", "c_wait"}}
    IN  IF waiting = {} THEN {p}
        ELSE {[p EXCEPT ![t] = IF t = "producer" THEN "p_woken" ELSE "c_woken"] :
                 t \in waiting}

\* The process starts: main() is about to parse its argument.
InitRelay ==
    /\ ring = RingBuffer_new(0, ZeroStorage(0))
    /\ op = "new" /\ arg_len = 0 /\ ret = 0 /\ panicked = FALSE
    /\ out = <<>> /\ accepted = <<>> /\ returned = <<>>
    /\ cmdline \in CmdLines
    /\ args = ParseArgs(cmdline)
    /\ pc = [producer |-> "start", consumer |-> "unborn"]
    /\ mutex = "free"
    /\ poisoned = FALSE
    /\ p_bytes = ZeroBytes /\ p_n = 0 /\ p_start = 0
    /\ c_bytes = ZeroBytes /\ c_n = 0 /\ c_start = 0
    /\ stdin \in SeqsUpTo(Items, MaxStdin)
    /\ read_in = <<>>
    /\ written = <<>>
    /\ exit = "running"

\* main(): the argument does not parse; usage_and_exit.
Main_UsageAndExit ==
    /\ exit = "running" /\ pc.producer = "start"
    /\ ~args.ok
    /\ pc' = [pc EXCEPT !.producer = "exited"]
    /\ exit' = "exit1"
    /\ UNCHANGED <<ring, callerVars, cmdline, args, mutex, poisoned, p_bytes, p_n, p_start,
                   c_bytes, c_n, c_start, stdin, read_in, written>>

\* main(): RingBuffer::new(buffer_size), the Condvar, and the writer thread is
\* spawned.
Main_Spawn ==
    /\ exit = "running" /\ pc.producer = "start"
    /\ args.ok
    /\ ring' = RingBuffer_new(args.n, ZeroStorage(args.n))
    /\ pc' = [producer |-> "p_lock", consumer |-> "c_lock"]
    /\ UNCHANGED <<callerVars, cmdline, args, mutex, poisoned, p_bytes, p_n, p_start,
                   c_bytes, c_n, c_start, stdin, read_in, written, exit>>

\* ---- the reader loop of the main thread (the producer)

\* let mut buffer = ring.lock().unwrap();
P_Lock ==
    /\ exit = "running" /\ pc.producer = "p_lock"
    /\ mutex = "free"
    /\ IF poisoned
       THEN /\ exit' = "exit101"
            /\ pc' = [pc EXCEPT !.producer = "exited"]
            /\ UNCHANGED mutex
       ELSE /\ mutex' = "producer"
            /\ pc' = [pc EXCEPT !.producer = "p_read"]
            /\ UNCHANGED exit
    /\ UNCHANGED <<ring, callerVars, cmdline, args, poisoned, p_bytes, p_n, p_start,
                   c_bytes, c_n, c_start, stdin, read_in, written>>

\* let n = input.read(&mut bytes).unwrap(); with bytes to deliver: some of
\* them, at most the chunk array's length.
P_Read ==
    /\ exit = "running" /\ pc.producer = "p_read"
    /\ stdin /= <<>>
    /\ \E n \in 1..min(Len(stdin), Len(p_bytes)) :
         /\ p_bytes' = [i \in 1..Len(p_bytes) |->
                           IF i <= n THEN stdin[i] ELSE p_bytes[i]]
         /\ p_n' = n
         /\ stdin' = SubSeq(stdin, n + 1, Len(stdin))
         /\ read_in' = read_in \o SubSeq(stdin, 1, n)
    /\ p_start' = 0
    /\ pc' = [pc EXCEPT !.producer = "p_loop"]
    /\ UNCHANGED <<ring, callerVars, cmdline, args, mutex, poisoned,
                   c_bytes, c_n, c_start, written, exit>>

\* input.read gives 0 at end-of-stream.
P_ReadEof ==
    /\ exit = "running" /\ pc.producer = "p_read"
    /\ stdin = <<>>
    /\ p_n' = 0
    /\ pc' = [pc EXCEPT !.producer = "p_close"]
    /\ UNCHANGED <<ring, callerVars, cmdline, args, mutex, poisoned, p_bytes, p_start,
                   c_bytes, c_n, c_start, stdin, read_in, written, exit>>

\* input.read gives an error: unwrap panics in the main thread, which ends
\* the process.
P_ReadError ==
    /\ exit = "running" /\ pc.producer = "p_read"
    /\ pc' = [pc EXCEPT !.producer = "exited"]
    /\ mutex' = "free"
    /\ poisoned' = TRUE
    /\ exit' = "exit101"
    /\ UNCHANGED <<ring, callerVars, cmdline, args, p_bytes, p_n, p_start,
                   c_bytes, c_n, c_start, stdin, read_in, written>>

\* The producer's close step as it would be without its notify_one.
P_Close_NoNotify ==
    /\ exit = "running" /\ pc.producer = "p_close"
    /\ ring' = close(ring)
    /\ pc' = [pc EXCEPT !.producer = "p_break"]
    /\ UNCHANGED <<callerVars, cmdline, args, mutex, poisoned, p_bytes, p_n, p_start,
                   c_bytes, c_n, c_start, stdin, read_in, written, exit>>

\* if n == 0 { buffer.close(); cond.notify_one(); break; }
P_Close ==
    /\ exit = "running" /\ pc.producer = "p_close"
    /\ ring' = close(ring)
    /\ pc' \in notify_one([pc EXCEPT !.producer = "p_break"])
    /\ UNCHANGED <<callerVars, cmdline, args, mutex, poisoned, p_bytes, p_n, p_start,
                   c_bytes, c_n, c_start, stdin, read_in, written, exit>>

\* The break leaves the loop: the guard is dropped.
P_Break ==
    /\ exit = "running" /\ pc.producer = "p_break"
    /\ mutex' = "free"
    /\ pc' = [pc EXCEPT !.producer = "p_join"]
    /\ UNCHANGED <<ring, callerVars, cmdline, args, poisoned, p_bytes, p_n, p_start,
                   c_bytes, c_n, c_start, stdin, read_in, written, exit>>

\* The producer's loop test as it would be if it gave the chunk up on a full
\* buffer instead of waiting.
P_Loop_SkipsWhenFull ==
    /\ exit = "running" /\ pc.producer = "p_loop"
    /\ IF p_start < p_n /\ ring.available_to_write > 0
       THEN /\ pc' = [pc EXCEPT !.producer = "p_put"]
            /\ UNCHANGED mutex
       ELSE /\ pc' = [pc EXCEPT !.producer = "p_lock"]
            /\ mutex' = "free"
    /\ UNCHANGED <<ring, callerVars, cmdline, args, poisoned, p_bytes, p_n, p_start,
                   c_bytes, c_n, c_start, stdin, read_in, written, exit>>

\* while start < n { if buffer.available_to_write == 0 { cond.wait } ... }:
\* the loop test and the test for a full buffer. The wait releases the Mutex;
\* the end of the loop body drops the guard.
P_Loop ==
    /\ exit = "running" /\ pc.producer = "p_loop"
    /\ IF p_start < p_n
       THEN IF ring.available_to_write = 0
            THEN /\ pc' = [pc EXCEPT !.producer = "p_wait"]
                 /\ mutex' = "free"
            ELSE /\ pc' = [pc EXCEPT !.producer = "p_put"]
                 /\ UNCHANGED mutex
       ELSE /\ pc' = [pc EXCEPT !.producer = "p_lock"]
            /\ mutex' = "free"
    /\ UNCHANGED <<ring, callerVars, cmdline, args, poisoned, p_bytes, p_n, p_start,
                   c_bytes, c_n, c_start, stdin, read_in, written, exit>>

\* cond.wait(buffer).unwrap() returns: the woken producer takes the Mutex
\* again, and unwrap panics if it is poisoned.
P_Woken ==
    /\ exit = "running" /\ pc.producer = "p_woken"
    /\ mutex = "free"
    /\ IF poisoned
       THEN /\ exit' = "exit101"
            /\ pc' = [pc EXCEPT !.producer = "exited"]
            /\ UNCHANGED mutex
       ELSE /\ mutex' = "producer"
            /\ pc' = [pc EXCEPT !.producer = "p_put"]
            /\ UNCHANGED exit
    /\ UNCHANGED <<ring, callerVars, cmdline, args, poisoned, p_bytes, p_n, p_start,
                   c_bytes, c_n, c_start, stdin, read_in, written>>

\* The producer's put step as it would be if start advanced by the length of
\* the slice handed to put instead of the count put returned.
P_Put_AdvancesByRequest ==
    LET r == put(ring, SubSeq(p_bytes, p_start + 1, p_n)) IN
    /\ exit = "running" /\ pc.producer = "p_put"
    /\ IF r.panicked
       THEN /\ exit' = "exit101"
            /\ pc' = [pc EXCEPT !.producer = "exited"]
            /\ mutex' = "free"
            /\ poisoned' = TRUE
            /\ UNCHANGED <<ring, p_start>>
       ELSE /\ ring' = r.self
            /\ p_start' = p_n
            /\ pc' \in notify_one([pc EXCEPT !.producer = "p_loop"])
            /\ UNCHANGED <<mutex, poisoned, exit>>
    /\ UNCHANGED <<callerVars, cmdline, args, p_bytes, p_n,
                   c_bytes, c_n, c_start, stdin, read_in, written>>

\* start += buffer.put(&bytes[start..n]); cond.notify_one();
P_Put ==
    LET r == put(ring, SubSeq(p_bytes, p_start + 1, p_n)) IN
    /\ exit = "running" /\ pc.producer = "p_put"
    /\ IF r.panicked
       THEN /\ exit' = "exit101"
            /\ pc' = [pc EXCEPT !.producer = "exited"]
            /\ mutex' = "free"
            /\ poisoned' = TRUE
            /\ UNCHANGED <<ring, p_start>>
       ELSE /\ ring' = r.self
            /\ p_start' = p_start + r.ret
            /\ pc' \in notify_one([pc EXCEPT !.producer = "p_loop"])
            /\ UNCHANGED <<mutex, poisoned, exit>>
    /\ UNCHANGED <<callerVars, cmdline, args, p_bytes, p_n,
                   c_bytes, c_n, c_start, stdin, read_in, written>>

\* writer_handle.join().unwrap(): returns when the writer thread has ended;
\* unwrap panics if it ended in a panic.
P_Join ==
    /\ exit = "running" /\ pc.producer = "p_join"
    /\ pc.consumer \in {"c_done", "c_panicked"}
    /\ exit' = IF pc.consumer = "c_done" THEN "exit0" ELSE "exit101"
    /\ pc' = [pc EXCEPT !.producer = "exited"]
    /\ UNCHANGED <<ring, callerVars, cmdline, args, mutex, poisoned, p_bytes, p_n, p_start,
                   c_bytes, c_n, c_start, stdin, read_in, written>>

\* ---- the writer thread (the consumer)

\* let mut buffer = ring.lock().unwrap(); only the consumer itself poisons
\* the Mutex of a process that still runs, and it ends by doing so.
C_Lock ==
    /\ exit = "running" /\ pc.consumer = "c_lock"
    /\ mutex = "free"
    /\ mutex' = "consumer"
    /\ pc' = [pc EXCEPT !.consumer = "c_check"]
    /\ UNCHANGED <<ring, callerVars, cmdline, args, poisoned, p_bytes, p_n, p_start,
                   c_bytes, c_n, c_start, stdin, read_in, written, exit>>

\* while buffer.available_to_read == 0 && !buffer.is_closed() { cond.wait }:
\* the loop test. The wait releases the Mutex.
C_Check ==
    /\ exit = "running" /\ pc.consumer = "c_check"
    /\ IF ring.available_to_read = 0 /\ ~is_closed(ring)
       THEN /\ pc' = [pc EXCEPT !.consumer = "c_wait"]
            /\ mutex' = "free"
       ELSE /\ pc' = [pc EXCEPT !.consumer = "c_get"]
            /\ UNCHANGED mutex
    /\ UNCHANGED <<ring, callerVars, cmdline, args, poisoned, p_bytes, p_n, p_start,
                   c_bytes, c_n, c_start, stdin, read_in, written, exit>>

\* The consumer's return from cond.wait as it would be if it did not wait
\* for the Mutex to be free.
C_Woken_TakesHeldMutex ==
    /\ exit = "running" /\ pc.consumer = "c_woken"
    /\ mutex' = "consumer"
    /\ pc' = [pc EXCEPT !.consumer = "c_check"]
    /\ UNCHANGED <<ring, callerVars, cmdline, args, poisoned, p_bytes, p_n, p_start,
                   c_bytes, c_n, c_start, stdin, read_in, written, exit>>

\* cond.wait(buffer).unwrap() returns: the woken consumer takes the Mutex again.
C_Woken ==
    /\ exit = "running" /\ pc.consumer = "c_woken"
    /\ mutex = "free"
    /\ mutex' = "consumer"
    /\ pc' = [pc EXCEPT !.consumer = "c_check"]
    /\ UNCHANGED <<ring, callerVars, cmdline, args, poisoned, p_bytes, p_n, p_start,
                   c_bytes, c_n, c_start, stdin, read_in, written, exit>>

\* The consumer's get and branch as they would be if the test for the end of
\* the loop came first: bytes just retrieved from a closed buffer are dropped.
C_Get_BreaksBeforeWrite ==
    LET r == get(ring, c_bytes) IN
    /\ exit = "running" /\ pc.consumer = "c_get"
    /\ ring' = r.self
    /\ c_bytes' = r.output
    /\ IF r.panicked
       THEN /\ pc' = [pc EXCEPT !.consumer = "c_panicked"]
            /\ mutex' = "free"
            /\ poisoned' = TRUE
            /\ UNCHANGED <<c_n, c_start>>
       ELSE /\ c_n' = r.ret
            /\ UNCHANGED poisoned
            /\ IF r.self.available_to_read = 0 /\ is_closed(r.self)
               THEN /\ UNCHANGED c_start
                    /\ mutex' = "free"
                    /\ pc' = [pc EXCEPT !.consumer = "c_done"]
               ELSE IF r.ret > 0
                    THEN /\ c_start' = 0
                         /\ pc' = [pc EXCEPT !.consumer = "c_write"]
                         /\ UNCHANGED mutex
                    ELSE /\ UNCHANGED c_start
                         /\ mutex' = "free"
                         /\ pc' = [pc EXCEPT !.consumer = "c_lock"]
    /\ UNCHANGED <<callerVars, cmdline, args, p_bytes, p_n, p_start,
                   stdin, read_in, written, exit>>

\* let n = buffer.get(&mut bytes); and the branch on n: write the bytes,
\* break when the buffer is empty and closed, or go round the loop (the guard
\* is dropped). A panic in get ends the thread and poisons the Mutex.
C_Get ==
    LET r == get(ring, c_bytes) IN
    /\ exit = "running" /\ pc.consumer = "c_get"
    /\ ring' = r.self
    /\ c_bytes' = r.output
    /\ IF r.panicked
       THEN /\ pc' = [pc EXCEPT !.consumer = "c_panicked"]
            /\ mutex' = "free"
            /\ poisoned' = TRUE
            /\ UNCHANGED <<c_n, c_start>>
       ELSE /\ c_n' = r.ret
            /\ UNCHANGED poisoned
            /\ IF r.ret > 0
               THEN /\ c_start' = 0
                    /\ pc' = [pc EXCEPT !.consumer = "c_write"]
                    /\ UNCHANGED mutex
               ELSE /\ UNCHANGED c_start
                    /\ mutex' = "free"
                    /\ pc' = [pc EXCEPT !.consumer =
                                 IF r.self.available_to_read = 0 /\ is_closed(r.self)
                                 THEN "c_done" ELSE "c_lock"]
    /\ UNCHANGED <<callerVars, cmdline, args, p_bytes, p_n, p_start,
                   stdin, read_in, written, exit>>

\* while start < n { start += output.write(&bytes[start..n]).unwrap(); }:
\* one write, which takes some of the bytes handed to it.
C_Write ==
    /\ exit = "running" /\ pc.consumer = "c_write"
    /\ c_start < c_n
    /\ \E k \in 1..(c_n - c_start) :
         /\ written' = written \o SubSeq(c_bytes, c_start + 1, c_start + k)
         /\ c_start' = c_start + k
    /\ UNCHANGED <<ring, callerVars, cmdline, args, pc, mutex, poisoned, p_bytes, p_n, p_start,
                   c_bytes, c_n, stdin, read_in, exit>>

\* output.write or output.flush gives an error: unwrap panics in the writer
\* thread, which still holds the guard, so the Mutex is poisoned.
C_OutputError ==
    /\ exit = "running" /\ pc.consumer = "c_write"
    /\ pc' = [pc EXCEPT !.consumer = "c_panicked"]
    /\ mutex' = "free"
    /\ poisoned' = TRUE
    /\ UNCHANGED <<ring, callerVars, cmdline, args, p_bytes, p_n, p_start,
                   c_bytes, c_n, c_start, stdin, read_in, written, exit>>

\* output.flush().unwrap(); cond.notify_one(); and the end of the loop body
\* drops the guard.
C_Flush ==
    /\ exit = "running" /\ pc.consumer = "c_write"
    /\ c_start >= c_n
    /\ pc' \in notify_one([pc EXCEPT !.consumer = "c_lock"])
    /\ mutex' = "free"
    /\ UNCHANGED <<ring, callerVars, cmdline, args, poisoned, p_bytes, p_n, p_start,
                   c_bytes, c_n, c_start, stdin, read_in, written, exit>>

\* A thread blocked in cond.wait wakes without a notify (std::sync::Condvar
\* allows spurious wakeups).
SpuriousWakeup ==
    /\ exit = "running"
    /\ \E t \in {"producer", "consumer"} :
         /\ pc[t] \in {"p_wait", "c_wait"}
         /\ pc' = [pc EXCEPT ![t] = IF t = "producer" THEN "p_woken" ELSE "c_woken"]
    /\ UNCHANGED <<ring, callerVars, cmdline, args, mutex, poisoned, p_bytes, p_n, p_start,
                   c_bytes, c_n, c_start, stdin, read_in, written, exit>>

Producer ==
    \/ Main_UsageAndExit \/ Main_Spawn
    \/ P_Lock \/ P_Read \/ P_ReadEof \/ P_Close \/ P_Break
    \/ P_Loop \/ P_Woken \/ P_Put \/ P_Join

Consumer ==
    \/ C_Lock \/ C_Check \/ C_Woken \/ C_Get \/ C_Write \/ C_Flush

\* The relay with everything that can happen to it.
NextRelay ==
    \/ Producer \/ Consumer
    \/ SpuriousWakeup
    \/ P_ReadError \/ C_OutputError

SpecRelay == InitRelay /\ [][NextRelay]_vars

\* The relay when every input read and every output write succeeds.
NextRelayOk ==
    \/ Producer \/ Consumer
    \/ SpuriousWakeup

\* Both threads keep being scheduled, and a thread that keeps finding the
\* Mutex free at times gets it in the end. No spurious wakeup is promised.
RelayFairness ==
    /\ WF_vars(Producer)
    /\ WF_vars(Consumer)
    /\ SF_vars(P_Lock) /\ SF_vars(P_Woken)
    /\ SF_vars(C_Lock) /\ SF_vars(C_Woken)

SpecRelayFair == InitRelay /\ [][NextRelayOk]_vars /\ RelayFairness

\* The relay with I/O errors, under the same fair scheduling: an error may
\* happen, none is promised.
SpecRelayErrFair == InitRelay /\ [][NextRelay]_vars /\ RelayFairness

\* The producer's steps other than the return of input.read(): a read
\* returns when the input delivers bytes or its end, which the program does
\* not control.
ProducerButRead ==
    \/ Main_UsageAndExit \/ Main_Spawn
    \/ P_Lock \/ P_Close \/ P_Break
    \/ P_Loop \/ P_Woken \/ P_Put \/ P_Join

\* Fair scheduling of both threads when the input may stall for ever: every
\* step is as fair as in RelayFairness but the return of input.read().
StallFairness ==
    /\ WF_vars(ProducerButRead)
    /\ WF_vars(Consumer)
    /\ SF_vars(P_Lock) /\ SF_vars(P_Woken)
    /\ SF_vars(C_Lock) /\ SF_vars(C_Woken)

\* The relay without I/O errors on an input that may stall for ever.
SpecRelayStall == InitRelay /\ [][NextRelayOk]_vars /\ StallFairness



\* ------------------------------------------- the buffer: its properties

\* What put(input) is said to do to an open buffer, stated from the fields
\* before the call. With capacity 0 the remainder is undefined and the
\* cursor is said to stay.
PutPost(input) ==
    LET count_written == min(min(ring.capacity - ring.write_pos,
                                 ring.available_to_write), Len(input))
    IN  /\ ~panicked'
        /\ ret' = count_written
        /\ \A i \in 1..count_written :
              ring'.buffer[ring.write_pos + i - 1] = input[i]
        /\ \A i \in DOMAIN ring.buffer :
              (i < ring.write_pos \/ i >= ring.write_pos + count_written)
                 => ring'.buffer[i] = ring.buffer[i]
        /\ ring'.available_to_write = ring.available_to_write - count_written
        /\ ring'.available_to_read = ring.available_to_read + count_written
        /\ ring'.write_pos = IF ring.capacity = 0 THEN ring.write_pos
                             ELSE (ring.write_pos + count_written) % ring.capacity
        /\ ring'.read_pos = ring.read_pos
        /\ ring'.closed = ring.closed
        /\ ring'.capacity = ring.capacity
        /\ accepted' = accepted \o SubSeq(input, 1, count_written)

\* What get(output) is said to do, stated from the fields before the call.
GetPost(output) ==
    LET count == min(min(ring.capacity - ring.read_pos,
                         ring.available_to_read), Len(output))
        wanted == min(ring.available_to_read, Len(output))
    IN  /\ ~panicked'
        /\ ret' = count
        /\ Len(out') = Len(output)
        /\ \A i \in 1..count : out'[i] = ring.buffer[ring.read_pos + i - 1]
        /\ \A i \in (count + 1)..Len(output) : out'[i] = output[i]
        /\ ring'.available_to_read = ring.available_to_read - count
        /\ ring'.available_to_write = ring.available_to_write + count
        /\ ring'.read_pos = (ring.read_pos + count) % ring.capacity
        /\ ring'.write_pos = ring.write_pos
        /\ ring'.closed = ring.closed
        /\ ring'.buffer = ring.buffer
        /\ ring'.capacity = ring.capacity
        /\ (ring.read_pos + wanted > ring.capacity => ret' < wanted)

\* A call that changes no field of the buffer.
BufferUnchanged == ring' = ring

\* The wrap-boundary example: capacity 10, write_pos 8, every number of free
\* slots from 5 to 10, a put of 5 items.
WrapExample(free) ==
    [capacity           |-> 10,
     buffer             |-> [i \in 0..9 |-> 0],
     write_pos          |-> 8,
     available_to_write |-> free,
     read_pos           |-> (8 + free) % 10,
     available_to_read  |-> 10 - free,
     closed             |-> FALSE]

\* C1: for every capacity >= 1 and every sequence of put, get and close
\* calls, available_to_write + available_to_read = capacity, and both counts
\* lie in 0..capacity.
C1_CapacityInvariant ==
    ring.capacity >= 1 =>
        /\ ring.available_to_write + ring.available_to_read = ring.capacity
        /\ 0 <= ring.available_to_write
        /\ ring.available_to_write <= ring.capacity
        /\ 0 <= ring.available_to_read
        /\ ring.available_to_read <= ring.capacity

\* C1 witness: a closed buffer of capacity >= 2, partly filled, after a get
\* that returned items.
C1_Witness ==
    /\ ring.capacity >= 2
    /\ op = "get" /\ ret >= 1
    /\ ring.closed
    /\ ring.available_to_read >= 1
    /\ ring.available_to_write >= 1
    /\ Len(accepted) > ring.capacity

\* C2: the items get has returned are a prefix of the items put has
\* accepted, and are all of them whenever the buffer is empty.
C2_BufferFifo ==
    /\ IsPrefix(returned, accepted)
    /\ (is_empty(ring) => returned = accepted)

\* C2 witness: more items than the capacity went through a buffer of
\* capacity >= 2 (so the cursors wrapped), both kinds of item among them, and
\* the buffer is drained.
C2_Witness ==
    /\ ring.capacity >= 2
    /\ Len(returned) > ring.capacity
    /\ returned = accepted
    /\ is_empty(ring)
    /\ \E i, j \in 1..Len(returned) : returned[i] /= returned[j]

\* C4: put on an open buffer returns min(capacity - write_pos,
\* available_to_write, len(input)), copies exactly that many leading input
\* items to the slots from write_pos on, moves the two counts by it and
\* advances write_pos by it modulo capacity; and with capacity 10,
\* write_pos 8 and at least 5 free slots a put of 5 items returns 2.
C4_PutContract ==
    /\ \A free \in 5..10 : \A input \in [1..5 -> Items] :
          put(WrapExample(free), input).ret = 2
    /\ [][\A input \in Inputs : (~ring.closed /\ Put(input)) => PutPost(input)]_vars

\* C4 witness: a put that stopped at the wrap boundary: it returned fewer
\* items than it was handed although free slots remain.
C4_Witness ==
    /\ op = "put" /\ ~panicked
    /\ ret >= 1 /\ ret < arg_len
    /\ ring.write_pos = 0
    /\ ring.available_to_write >= 1

\* C5: get returns min(capacity - read_pos, available_to_read, len(output)),
\* copies exactly the items of the slots from read_pos on to the front of the
\* output slice, moves the two counts, advances read_pos modulo capacity,
\* leaves write_pos, closed and the stored items alone, and returns fewer
\* items than are available when they cross the wrap boundary.
C5_GetContract ==
    [][\A output \in Outputs : Get(output) => GetPost(output)]_vars

\* C5, for buffers of capacity >= 1 only.
C5_GetContractFromCapacityOne ==
    [][\A output \in Outputs :
          (ring.capacity >= 1 /\ Get(output)) => GetPost(output)]_vars

\* C6: put on a full open buffer returns 0 and changes no field; get on an
\* empty buffer returns 0, changes no field and leaves the output slice as
\* it was.
C6_NonBlockingHonesty ==
    [][/\ \A input \in Inputs :
            (~ring.closed /\ is_full(ring) /\ Put(input))
               => (~panicked' /\ ret' = 0 /\ BufferUnchanged)
       /\ \A output \in Outputs :
            (is_empty(ring) /\ Get(output))
               => (~panicked' /\ ret' = 0 /\ BufferUnchanged /\ out' = output)]_vars

\* C6, for buffers of capacity >= 1 only.
C6_NonBlockingHonestyFromCapacityOne ==
    [][ring.capacity >= 1 =>
        /\ \A input \in Inputs :
             (~ring.closed /\ is_full(ring) /\ Put(input))
                => (~panicked' /\ ret' = 0 /\ BufferUnchanged)
        /\ \A output \in Outputs :
             (is_empty(ring) /\ Get(output))
                => (~panicked' /\ ret' = 0 /\ BufferUnchanged /\ out' = output)]_vars

\* C7: once closed, the buffer stays closed and a second close changes
\* nothing; every later put panics and changes nothing; and get on a closed
\* buffer that still holds items returns the next of them, in order.
C7_CloseSemantics ==
    [][/\ ring.closed => ring'.closed
       /\ (ring.closed /\ Close) => BufferUnchanged
       /\ \A input \in Inputs :
            (ring.closed /\ Put(input))
               => (panicked' /\ BufferUnchanged /\ accepted' = accepted)
       /\ \A output \in Outputs :
            (ring.closed /\ ~is_empty(ring) /\ Len(output) >= 1 /\ Get(output))
               => /\ ~panicked'
                  /\ ret' >= 1
                  /\ SubSeq(out', 1, ret')
                       = SubSeq(accepted, Len(returned) + 1, Len(returned) + ret')
                  /\ ring'.available_to_read = ring.available_to_read - ret']_vars

\* C7 witness: a closed buffer drained by a get that returned items, at
\* least two items having come out of it.
C7_Witness ==
    /\ ring.closed
    /\ op = "get" /\ ret >= 1
    /\ is_empty(ring)
    /\ Len(returned) >= 2

\* C8: with capacity >= 1, put of a non-empty input on an open buffer that is
\* not full returns at least 1, and get into a non-empty output slice from a
\* buffer that is not empty returns at least 1.
C8_Progress ==
    [][ring.capacity >= 1 =>
        /\ \A input \in Inputs :
             (~ring.closed /\ ~is_full(ring) /\ Len(input) >= 1 /\ Put(input))
                => (~panicked' /\ ret' >= 1)
        /\ \A output \in Outputs :
             (~is_empty(ring) /\ Len(output) >= 1 /\ Get(output))
                => (~panicked' /\ ret' >= 1)]_vars

\* C8 witness: a get that returned one item from a buffer holding more, the
\* read cursor having reached the wrap boundary.
C8_Witness ==
    /\ op = "get" /\ ret = 1 /\ arg_len >= 2
    /\ ring.read_pos = 0
    /\ ring.available_to_read >= 1
    /\ ring.capacity >= 2


\* -------------------------------------------- the relay: its properties

\* The items the buffer holds, oldest first.
RingContents ==
    [i \in 1..ring.available_to_read |->
        ring.buffer[(ring.read_pos + i - 1) % ring.capacity]]

\* The bytes of the producer's chunk that put has not accepted yet.
ProducerPending ==
    IF pc.producer \in {"p_loop", "p_wait", "p_woken", "p_put"}
    THEN SubSeq(p_bytes, p_start + 1, p_n) ELSE <<>>

\* The bytes the consumer took from the buffer and has not written yet.
ConsumerPending ==
    IF pc.consumer = "c_write"
    THEN SubSeq(c_bytes, c_start + 1, c_n) ELSE <<>>

\* The writer thread and the ring exist.
Spawned == pc.consumer /= "unborn"

\* C3: in every state of the relay the bytes written to the output are a
\* prefix of the bytes read from the input; until the writer thread panics,
\* the bytes read are exactly those written, then those the consumer holds,
\* then those in the buffer, then the rest of the producer's chunk (nothing
\* dropped, overwritten or reordered); a producer that finds the buffer full
\* waits and leaves it alone; and a put moves the producer's offset by
\* exactly the count it returned.
C3_RelayFifo ==
    /\ [](IsPrefix(written, read_in))
    /\ []((Spawned /\ pc.consumer /= "c_panicked")
            => read_in = written \o ConsumerPending \o RingContents \o ProducerPending)
    /\ [][(P_Loop /\ p_start < p_n /\ is_full(ring))
            => (pc'.producer = "p_wait" /\ ring' = ring /\ p_start' = p_start)]_vars
    /\ [][P_Put => (/\ p_start' - p_start
                          = ring'.available_to_read - ring.available_to_read
                    /\ p_start' - p_start
                          = min(min(ring.capacity - ring.write_pos,
                                    ring.available_to_write), p_n - p_start)
                    /\ p_start' <= p_n)]_vars

\* C3 witness: the producer waits on a full buffer with part of its chunk
\* still to put, after the cursors moved on and a byte was written; the
\* bytes in flight are of both kinds.
C3_Witness ==
    /\ pc.producer = "p_wait"
    /\ ring.capacity >= 2
    /\ is_full(ring)
    /\ ring.write_pos > 0
    /\ ProducerPending /= <<>>
    /\ written /= <<>>
    /\ \E i, j \in 1..Len(read_in) : read_in[i] /= read_in[j]

\* C9: with capacity >= 1, an input that ends and output writes that
\* succeed, under fair scheduling the producer closes the buffer, the
\* consumer writes every input byte and ends, and main's join returns: the
\* process exits with code 0.
C9_RelayTerminates ==
    (args.ok /\ args.n >= 1)
        => <>(/\ exit = "exit0"
              /\ is_closed(ring)
              /\ pc.consumer = "c_done"
              /\ stdin = <<>>
              /\ written = read_in)

\* C9 witness: the relay of a buffer smaller than the input has ended with
\* exit code 0, every byte written.
C9_Witness ==
    /\ exit = "exit0"
    /\ args.n >= 1
    /\ Len(written) > args.n
    /\ written = read_in
    /\ stdin = <<>>

\* C10: no RingBuffer of capacity 0 is ever created, and the relay started
\* with buffer_size 0 ends with a configuration error without running its
\* loops on such a buffer.
C10_ZeroCapacityRejected ==
    /\ Spawned => ring.capacity >= 1
    /\ (args.ok /\ args.n = 0) => (~Spawned /\ exit \in {"running", "exit1"})

\* C10, what buffer_size 0 leads to instead (both states are reachable):
\* with bytes on the input, both threads blocked in cond.wait on a buffer
\* that is full and empty at once; with an empty input, the remainder by
\* zero in get panics in the writer thread and the process exits with 101.
ZeroCapacityBothWait ==
    /\ Spawned /\ ring.capacity = 0
    /\ pc.producer = "p_wait" /\ pc.consumer = "c_wait"

ZeroCapacityPanic ==
    /\ args.ok /\ args.n = 0
    /\ pc.consumer = "c_panicked"
    /\ exit = "exit101"

\* C11: an error of the external output is fatal to the whole relay: once
\* the writer thread has panicked on a failed write or flush (buffer_size
\* >= 1, so no other panic of it exists), the process ends, also when the
\* producer was suspended in cond.wait on a full buffer.
C11_OutputErrorEndsRelay ==
    [](((args.ok /\ args.n >= 1) /\ pc.consumer = "c_panicked")
          => <>(exit /= "running"))

\* C11, where the relay stays for ever instead (a reachable state no thread
\* leaves without a spurious wakeup): the writer thread is gone, the producer
\* sits in cond.wait, nobody is left to notify it.
OutputErrorStrandsProducer ==
    /\ args.ok /\ args.n >= 1
    /\ pc.consumer = "c_panicked"
    /\ pc.producer = "p_wait"
    /\ mutex = "free" /\ poisoned
    /\ exit = "running"

\* ---- C12: the size argument as the claim reads it

LowerCase(c) ==
    CASE c = "K" -> "k" [] c = "M" -> "m" [] c = "G" -> "g"
      [] c = "P" -> "p" [] c = "B" -> "b" [] OTHER -> c

\* How many digits a string starts with.
DigitPrefixLen(s) ==
    CHOOSE n \in 0..Len(s) :
        /\ \A i \in 1..n : IsDigit(s[i])
        /\ (n = Len(s) \/ ~IsDigit(s[n + 1]))

\* The exponent of 1024 a unit suffix stands for (none: 0), or -1 for a
\* suffix that is no unit.
SuffixExponent(suffix) ==
    LET unit == [i \in 1..Len(suffix) |-> LowerCase(suffix[i])]
    IN  CASE unit = <<>> -> 0
          [] unit \in {<<"k">>, <<"k", "b">>} -> 1
          [] unit \in {<<"m">>, <<"m", "b">>} -> 2
          [] unit \in {<<"g">>, <<"g", "b">>} -> 3
          [] unit \in {<<"p">>, <<"p", "b">>} -> 4
          [] OTHER -> -1

\* A size string as stated: an integer, then nothing or a unit suffix.
StatedSize(s) ==
    LET n == DigitPrefixLen(s)
        exponent == SuffixExponent(SubSeq(s, n + 1, Len(s)))
    IN  [ok |-> n >= 1 /\ exponent >= 0,
         value |-> DecimalValue(SubSeq(s, 1, n)),
         exponent |-> exponent]

\* capacity = value * 1024^exponent, without computing the power.
RECURSIVE IsValueTimesPower(_, _, _)
IsValueTimesPower(capacity, value, exponent) ==
    IF exponent = 0 THEN capacity = value
    ELSE /\ capacity % 1024 = 0
         /\ IsValueTimesPower(capacity \div 1024, value, exponent - 1)

\* C12: once main() is past its argument, a size string that is an integer
\* or an integer with a suffix among k, kb, m, mb, g, gb, p, pb (in any case)
\* has given a buffer of capacity value * 1024^exponent, and a malformed one
\* has ended the process in usage_and_exit with exit code 1. (A string with
\* a sign is left out: the claim does not say how it is read.)
C12_SizeArgument ==
    (/\ pc.producer /= "start" /\ Len(cmdline) = 1
     /\ (cmdline[1] = <<>> \/ cmdline[1][1] /= "+")) =>
        LET size == StatedSize(cmdline[1])
        IN  IF size.ok
            THEN /\ Spawned
                 /\ IsValueTimesPower(ring.capacity, size.value, size.exponent)
            ELSE ~Spawned /\ exit = "exit1"

\* C12, what main() does instead: only a string that str::parse::<usize>()
\* takes (digits, with an optional "+" before them) gives a buffer, of that
\* capacity; every other one, "256m" and "2g" among them, ends in
\* usage_and_exit.
SizeArgumentAsParsed ==
    pc.producer /= "start" =>
        IF /\ Len(cmdline) = 1
           /\ LET s == cmdline[1]
                  digits == IF s /= <<>> /\ s[1] = "+" THEN SubSeq(s, 2, Len(s)) ELSE s
              IN  DigitPrefixLen(digits) = Len(digits) /\ digits /= <<>>
        THEN /\ Spawned
             /\ ring.capacity = DecimalValue(IF cmdline[1][1] = "+"
                                             THEN SubSeq(cmdline[1], 2, Len(cmdline[1]))
                                             ELSE cmdline[1])
        ELSE ~Spawned /\ exit = "exit1"

\* The producer stands between taking the Mutex (lock, or the return of
\* cond.wait) and giving it up (cond.wait, the end of the loop body, break).
ProducerInCritical ==
    pc.producer \in {"p_read", "p_close", "p_break", "p_loop", "p_put"}

\* The same for the consumer.
ConsumerInCritical ==
    pc.consumer \in {"c_check", "c_get", "c_write"}

\* C13: every put, get and close and every read of available_to_read,
\* available_to_write and closed is done by a thread that holds the Mutex;
\* the two threads never hold it at once; a thread suspended in cond.wait
\* does not hold it and holds it again when it goes on.
C13_MutualExclusion ==
    /\ [](ProducerInCritical <=> mutex = "producer")
    /\ [](ConsumerInCritical <=> mutex = "consumer")
    /\ [](~(ProducerInCritical /\ ConsumerInCritical))
    /\ [][(P_Loop \/ P_Put \/ P_Close) => mutex = "producer"]_vars
    /\ [][(C_Check \/ C_Get) => mutex = "consumer"]_vars
    /\ [][(Spawned /\ ring' /= ring) => mutex /= "free"]_vars
    /\ [][(pc.producer = "p_woken" /\ pc'.producer = "p_put")
             => (mutex = "free" /\ mutex' = "producer")]_vars
    /\ [][(pc.consumer = "c_woken" /\ pc'.consumer = "c_check")
             => (mutex = "free" /\ mutex' = "consumer")]_vars

\* C13 witness: the producer was woken from its wait on a full buffer and
\* cannot go on: the consumer holds the Mutex and is about to get.
C13_Witness ==
    /\ pc.producer = "p_woken"
    /\ pc.consumer = "c_get"
    /\ mutex = "consumer"
    /\ is_full(ring) /\ ring.capacity >= 1

\* C14: in the relay put is never called on a closed buffer: the producer
\* closes only after a read of zero bytes, when every byte read before has
\* been accepted by put (it is written, in the consumer's hands or in the
\* buffer), and after the close it calls neither put nor close again, so
\* the panic of put is never met.
C14_NoPutAfterClose ==
    /\ [][P_Put => ~is_closed(ring)]_vars
    /\ [][P_Put => pc'.producer /= "exited"]_vars
    /\ [][P_Close => (/\ ~is_closed(ring)
                      /\ p_n = 0 /\ stdin = <<>>
                      /\ (pc.consumer /= "c_panicked"
                            => read_in = written \o ConsumerPending \o RingContents))]_vars
    /\ [](is_closed(ring) => pc.producer \in {"p_break", "p_join", "exited"})

\* C14 witness: the buffer was closed while it still held bytes, after the
\* producer had waited on a full buffer for its last chunk; the producer is
\* at the join.
C14_Witness ==
    /\ is_closed(ring)
    /\ pc.producer = "p_join"
    /\ is_full(ring) /\ ring.capacity >= 1
    /\ written /= <<>>
    /\ Len(read_in) > ring.capacity

\* C15: the consumer's loop ends only where the buffer is closed and empty
\* and the get just made returned 0, and there the bytes written to the
\* output are all the bytes the producer read from the input: nothing is
\* left in the buffer, in the consumer's array or in the producer's chunk.
C15_ConsumerExit ==
    /\ [](pc.consumer = "c_done"
            => /\ is_closed(ring) /\ is_empty(ring)
               /\ c_n = 0
               /\ written = read_in
               /\ RingContents = <<>> /\ ConsumerPending = <<>>
               /\ ProducerPending = <<>>)
    /\ [][(pc.consumer /= "c_done" /\ pc'.consumer = "c_done")
            => /\ C_Get
               /\ get(ring, c_bytes).ret = 0 /\ ~get(ring, c_bytes).panicked
               /\ is_closed(ring) /\ is_empty(ring)
               /\ ring' = ring
               /\ written' = read_in']_vars

\* C15 witness: the consumer has left its loop after a relay of more bytes
\* than the buffer holds.
C15_Witness ==
    /\ pc.consumer = "c_done"
    /\ ring.capacity >= 1
    /\ Len(written) > ring.capacity
    /\ \E i, j \in 1..Len(written) : written[i] /= written[j]

\* C16: after a get that retrieved items the consumer releases the Mutex
\* before it writes them: in no reachable state of a relay with buffer_size
\* >= 1 is the consumer at its output write or flush while it holds the
\* Mutex.
C16_WriteOutsideMutex ==
    (args.ok /\ args.n >= 1 /\ pc.consumer = "c_write") => mutex /= "consumer"

\* C16, what the code does instead (reachable): the guard taken before get
\* lives to the end of the loop body, so the consumer is writing with the
\* Mutex held while the producer, with bytes of its chunk still to put, is
\* kept at the return from cond.wait although the buffer has room.
ConsumerWritesHoldingMutex ==
    /\ args.ok /\ args.n >= 1
    /\ pc.consumer = "c_write" /\ mutex = "consumer"
    /\ c_start < c_n
    /\ pc.producer = "p_woken" /\ p_start < p_n
    /\ ring.available_to_write > 0

\* C17: the producer reads each chunk from the input before it takes the
\* Mutex: in no reachable state of a relay with buffer_size >= 1 is the
\* producer at the input read while it holds the Mutex.
C17_ReadOutsideMutex ==
    (args.ok /\ args.n >= 1 /\ pc.producer = "p_read") => mutex /= "producer"

\* C17, what the code does instead (reachable): ring.lock() comes before
\* input.read(), so the producer is at the read with the Mutex held while
\* the buffer holds bytes and the consumer is kept at its own lock().
ProducerReadsHoldingMutex ==
    /\ args.ok /\ args.n >= 1
    /\ pc.producer = "p_read" /\ mutex = "producer"
    /\ ~is_empty(ring)
    /\ pc.consumer \in {"c_lock", "c_woken"}

\* C18: no deadlock and no lost wakeup for capacity >= 1: the producer and
\* the consumer are never both suspended in cond.wait, and every successful
\* put, get and close is followed by notify_one before the Mutex is
\* released, so that a thread whose wait condition has become false (the
\* buffer no longer full for the producer; non-empty or closed for the
\* consumer) is suspended in cond.wait only while the thread that made it
\* false still holds the Mutex on its way to notify_one.
C18_NoLostWakeup ==
    (Spawned /\ ring.capacity >= 1)
      => /\ ~(pc.producer = "p_wait" /\ pc.consumer = "c_wait")
         /\ (pc.producer = "p_wait" /\ ~is_full(ring))
              => (mutex = "consumer" /\ pc.consumer = "c_write")
         /\ (pc.consumer = "c_wait" /\ (~is_empty(ring) \/ is_closed(ring)))
              => (mutex = "producer" /\ pc.producer \in {"p_loop", "p_break"})

\* C18, the lost wakeup (reachable): the consumer's get made room, its
\* output write failed, and the panic released the Mutex before notify_one;
\* the producer is suspended on a buffer that is not full.
LostWakeupAfterOutputError ==
    /\ Spawned /\ ring.capacity >= 1
    /\ pc.producer = "p_wait" /\ ~is_full(ring)
    /\ mutex = "free"
    /\ pc.consumer = "c_panicked" /\ poisoned
    /\ p_start < p_n
    /\ exit = "running"

\* C19: cursor invariant: for capacity >= 1, after any sequence of put, get
\* and close calls, read_pos and write_pos lie in 0..capacity-1 and
\* write_pos = (read_pos + available_to_read) mod capacity, so read_pos =
\* write_pos exactly when the buffer is empty or full; and a put leaves
\* every slot that holds an item not yet returned by get as it was.
C19_CursorInvariant ==
    /\ [](ring.capacity >= 1
            => /\ ring.read_pos \in 0..(ring.capacity - 1)
               /\ ring.write_pos \in 0..(ring.capacity - 1)
               /\ ring.write_pos
                    = (ring.read_pos + ring.available_to_read) % ring.capacity
               /\ (ring.read_pos = ring.write_pos)
                    <=> (is_empty(ring) \/ is_full(ring)))
    /\ [][\A input \in Inputs :
            (Put(input) /\ ring.capacity >= 1)
              => \A i \in 0..(ring.available_to_read - 1) :
                   LET slot == (ring.read_pos + i) % ring.capacity
                   IN  ring'.buffer[slot] = ring.buffer[slot]]_vars

\* C19 witness: a put has just filled a buffer of capacity >= 2 up to the
\* read cursor, which is not at slot 0: the write cursor wrapped and met it.
C19_Witness ==
    /\ ring.capacity >= 2
    /\ op = "put" /\ ret >= 1
    /\ is_full(ring)
    /\ ring.read_pos = ring.write_pos /\ ring.read_pos >= 1
    /\ Len(returned) >= 1


\* The count of bytes put has accepted so far: those written, those in the
\* consumer's hands and those in the buffer.
AcceptedCount == Len(written) + Len(ConsumerPending) + ring.available_to_read

\* C20: buffered data does not wait on future input: in a relay with
\* buffer_size >= 1 whose output writes succeed, every byte put has accepted
\* is written to the output in the end under fair scheduling, also when the
\* input then stalls for ever with the producer in its read.
C20_BufferedDataDrains ==
    \A k \in 1..MaxStdin :
        []((args.ok /\ args.n >= 1 /\ Spawned /\ AcceptedCount >= k)
              => <>(Len(written) >= k))

\* C20, where the bytes stay (reachable): the producer is in input.read()
\* with the Mutex held, the buffer holds bytes, and the consumer can only
\* wait for the Mutex.
StalledReadBlocksDrain ==
    /\ args.ok /\ args.n >= 1
    /\ pc.producer = "p_read" /\ mutex = "producer"
    /\ AcceptedCount > Len(written)
    /\ ~ENABLED Consumer

=============================================================================
